---------------------------- MODULE Spec2Model ----------------------------
(***************************************************************************)
(* A model of src/minist.py: the start-up block under                      *)
(* `if __name__ == '__main__'`, main(args), the two training-step          *)
(* variants, test(), set_random_seed() and the two DataLoader              *)
(* configurations.                                                         *)
(*                                                                         *)
(* A run is either entry = "cli" (the script is executed: lines 162-185)   *)
(* or entry = "call" (main(args) is called by an importing caller with an  *)
(* args object of the caller's choosing; the module global `args` read at  *)
(* lines 104 and 118 is then the caller's object).                         *)
(*                                                                         *)
(* The library objects the script drives are modelled by what the script   *)
(* observes of them: a DataLoader by its batch_size / shuffle / drop_last  *)
(* / worker_init_fn, the GradScaler by its scale and growth tracker, the   *)
(* model by an abstract parameter value, its train/eval mode and device.   *)
(***************************************************************************)
EXTENDS Integers, Sequences, FiniteSets, TLC

VARIABLES
    entry,            \* "cli" | "call"
    argv_flag,        \* cli: --use_mixed_precision is on the command line
    args,             \* the parsed / passed settings object
    torch_version,    \* the installed library: [text, release]
    cuda_available,   \* torch.cuda.is_available()
    train_size,       \* len(train_dataset) once downloaded
    test_size,        \* len(test_dataset)
    pc,               \* position of the single control flow
    err,              \* the exception in flight or propagated, "none" if none
    logged,           \* number of logging.exception records written
    seed_calls,       \* arguments of set_random_seed in the main process, in order
    unseeded_draws,   \* random draws made before the first set_random_seed
    train_worker_seed,\* seed in force in each running train-loader worker (<<>>: none running)
    test_worker_seed, \* the same for the test loader
    built,            \* the objects main has constructed so far
    model,            \* [params, training, device]
    opt_steps,        \* optimizer state: number of updates applied
    scaler,           \* {} (no scaler) or {[log2_scale, growth_tracker, enabled]}
    epoch,            \* loop variable of line 83
    batch_idx,        \* number of batches the current loop has consumed
    used,             \* samples the current loop has consumed
    batch_sizes,      \* sizes of the batches the current loop has consumed
    test_order,       \* test samples in the order the current test() saw them
    test_loss,        \* accumulator of line 125
    test_accuracy,    \* accumulator of line 126 (a count until line 137)
    last_step,        \* {} or {what the latest training batch did}
    prev_eval,        \* {} or {the evaluation before the latest, when it saw the same parameters}
    last_eval,        \* {} or {the latest completed evaluation}
    err_at,           \* where err was raised
    trace             \* call / return events of the training and evaluation steps

vars == << entry, argv_flag, args, torch_version, cuda_available, train_size,
           test_size, pc, err, logged, seed_calls, unseeded_draws,
           train_worker_seed, test_worker_seed, built, model, opt_steps,
           scaler, epoch, batch_idx, used, batch_sizes, test_order, test_loss,
           test_accuracy, last_step, prev_eval, last_eval, err_at, trace >>

---------------------------------------------------------------------------
(* Bounds of the model: epochs, split sizes and batch sizes explored. *)
MaxEpochs == 2
MaxTrain == 3
MaxTest == 2
MaxBatch == 2

(* Program constants: num_workers of both loaders; GradScaler()'s defaults
   init_scale = 2^16 and growth_interval = 2000 (backoff 0.5, growth 2.0). *)
NumWorkers == 16
InitScaleLog2 == 16
GrowthInterval == 2000

(* Seeds explored; the value a loader draws as its base seed; class labels. *)
Seeds == {3, 42}
BaseSeeds == {1000}
Classes == {0, 1}

---------------------------------------------------------------------------
(* distutils.version.LooseVersion on release strings of digits and dots. *)

DigitVal == [c \in {"0", "1", "2", "3", "4", "5", "6", "7", "8", "9"} |->
               CASE c = "0" -> 0 [] c = "1" -> 1 [] c = "2" -> 2 [] c = "3" -> 3
                 [] c = "4" -> 4 [] c = "5" -> 5 [] c = "6" -> 6 [] c = "7" -> 7
                 [] c = "8" -> 8 [] c = "9" -> 9]

CharOrd == [c \in {".", "0", "1", "2", "3", "4", "5", "6", "7", "8", "9"} |->
              IF c = "." THEN 0 ELSE DigitVal[c] + 2]

RECURSIVE ParseFrom(_, _, _, _)
ParseFrom(s, i, cur, has) ==
    IF i > Len(s) THEN (IF has THEN <<cur>> ELSE <<>>)
    ELSE IF s[i] = "."
         THEN (IF has THEN <<cur>> ELSE <<>>) \o ParseFrom(s, i + 1, 0, FALSE)
         ELSE ParseFrom(s, i + 1, cur * 10 + DigitVal[s[i]], TRUE)

ParseVersion(s) == ParseFrom(s, 1, 0, FALSE)

RECURSIVE ListLess(_, _)
ListLess(a, b) ==
    IF a = <<>> THEN b # <<>>
    ELSE IF b = <<>> THEN FALSE
    ELSE IF Head(a) # Head(b) THEN Head(a) < Head(b)
    ELSE ListLess(Tail(a), Tail(b))

MinVersionText == <<"1", ".", "6", ".", "0">>

(* Variant for sensitivity runs: the two version strings compared as text. *)
VersionTooOld_text(text) ==
    ListLess([i \in 1..Len(text) |-> CharOrd[text[i]]],
             [i \in 1..Len(MinVersionText) |-> CharOrd[MinVersionText[i]]])

(* LooseVersion(torch.__version__) < LooseVersion('1.6.0'), lines 45-46. *)
VersionTooOld(text) ==
    ListLess(ParseVersion(text), ParseVersion(MinVersionText))

Versions ==
    { [text |-> <<"1", ".", "5", ".", "1">>, release |-> <<1, 5, 1>>],
      [text |-> <<"1", ".", "6", ".", "0">>, release |-> <<1, 6, 0>>],
      [text |-> <<"1", ".", "1", "0", ".", "0">>, release |-> <<1, 10, 0>>] }

---------------------------------------------------------------------------
(* argparse: --use_mixed_precision is action='store_true', default=True. *)

(* Variant for sensitivity runs: the usual store_true default. *)
UseMixedPrecisionDefault_off == FALSE
UseMixedPrecisionDefault == TRUE

ParseUseMixedPrecision(flag_given) ==
    IF flag_given THEN TRUE ELSE UseMixedPrecisionDefault

---------------------------------------------------------------------------
(* The two DataLoader configurations. *)

(* Variant for sensitivity runs: the training loader without drop_last. *)
TrainLoader_keep_last ==
    [batch_size |-> args.batch_size, shuffle |-> TRUE, drop_last |-> FALSE,
     worker_init_fn |-> TRUE]
(* lines 61-62 *)
TrainLoader ==
    [batch_size |-> args.batch_size, shuffle |-> TRUE, drop_last |-> TRUE,
     worker_init_fn |-> TRUE]

(* Variant for sensitivity runs: the test loader with drop_last. *)
TestLoader_drop_last ==
    [batch_size |-> args.test_batch_size, shuffle |-> FALSE, drop_last |-> TRUE,
     worker_init_fn |-> FALSE]
(* line 70 *)
TestLoader ==
    [batch_size |-> args.test_batch_size, shuffle |-> FALSE, drop_last |-> FALSE,
     worker_init_fn |-> FALSE]

Min(S) == CHOOSE x \in S : \A y \in S : x <= y

RECURSIVE LowestK(_, _)
LowestK(S, k) ==
    IF k = 0 \/ S = {} THEN {} ELSE {Min(S)} \cup LowestK(S \ {Min(S)}, k - 1)

RECURSIVE Sorted(_)
Sorted(S) == IF S = {} THEN <<>> ELSE <<Min(S)>> \o Sorted(S \ {Min(S)})

(* The batches a loader over samples 1..n may yield next, `done` being the
   samples it has yielded in this pass; {} when the pass is exhausted. *)
NextBatches(loader, n, done) ==
    LET rest == (1..n) \ done
        b == loader.batch_size
    IN
    IF Cardinality(rest) >= b
    THEN IF loader.shuffle
         THEN {B \in SUBSET rest : Cardinality(B) = b}
         ELSE {LowestK(rest, b)}
    ELSE IF rest # {} /\ ~loader.drop_last THEN {rest} ELSE {}

(* len(loader) *)
NumBatches(loader, n) ==
    IF loader.drop_last THEN n \div loader.batch_size
    ELSE (n + loader.batch_size - 1) \div loader.batch_size

---------------------------------------------------------------------------
(* The network: an opaque function of parameters and input; in train mode
   its output is not a function of the two alone (dropout). *)

Label(x) == x % 2

Predictions(params, training, x) ==
    IF training THEN Classes ELSE {(x * (params + 1)) % 2}

SampleLoss(params, x) == 1 + ((x + 2 * params) % 3)

RECURSIVE SumLoss(_, _)
SumLoss(params, B) ==
    IF B = {} THEN 0
    ELSE LET x == Min(B) IN SampleLoss(params, x) + SumLoss(params, B \ {x})

---------------------------------------------------------------------------
(* Exceptions.  Inside main under the cli entry the try of lines 181-185
   catches; everywhere else the exception leaves the module. *)

MainPcs == {"set_seed", "version_check", "train_data", "test_data", "model",
            "scaler", "epoch_loop", "train_batch", "test_batch"}

(* Variant for sensitivity runs: the try around the whole start-up block. *)
CatchTarget_everywhere == IF entry = "cli" THEN "except" ELSE "raised"
CatchTarget == IF entry = "cli" /\ pc \in MainPcs THEN "except" ELSE "raised"

Raise(e) == /\ err' = e
            /\ err_at' = pc
            /\ pc' = CatchTarget

(* Variant for sensitivity runs: the handler without its raise. *)
AfterExcept_swallow == "done"
AfterExcept == "raised"


---------------------------------------------------------------------------
(* Pieces of the steps. *)

(* worker_init_fn, lines 58-59 (first a variant for sensitivity runs: every
   worker given the global seed). *)
WorkerSeed_same(seed, worker_id) == seed
WorkerSeed(seed, worker_id) == seed + worker_id

(* The seed in force in each worker of `loader` once it has started: the
   loader seeds worker w with base_seed + w (base_seed drawn from the main
   generator), then runs worker_init_fn when one was given. *)
WorkerSeeds(loader, base_seed) ==
    [w \in 0..(NumWorkers - 1) |->
        IF loader.worker_init_fn THEN WorkerSeed(args.seed, w) ELSE base_seed + w]

(* range(1, args.epochs + 1), line 83: the last value of epoch (first a
   variant for sensitivity runs: range(1, args.epochs)). *)
LastEpoch_short == args.epochs - 1
LastEpoch == args.epochs

(* .cuda(), lines 94, 112 and 128. *)
BatchDevice == "cuda"

(* model.eval(), line 124 (first a variant for sensitivity runs: the call
   left out). *)
EvalMode_unchanged == model.training
EvalMode == FALSE

(* scaler.step(optimizer), line 101: the update is skipped on overflow. *)
ScalerStep(params, found_inf) == IF found_inf THEN params ELSE params + 1

(* scaler.update(), line 102: halve on overflow, double after GrowthInterval
   clean steps in a row (first a variant for sensitivity runs: the call
   left out). *)
ScalerUpdate_omitted(sc, found_inf) == sc
ScalerUpdate(sc, found_inf) ==
    IF found_inf
    THEN [sc EXCEPT !.log2_scale = @ - 1, !.growth_tracker = 0]
    ELSE IF sc.growth_tracker + 1 = GrowthInterval
         THEN [sc EXCEPT !.log2_scale = @ + 1, !.growth_tracker = 0]
         ELSE [sc EXCEPT !.growth_tracker = @ + 1]

TheScaler == CHOOSE sc \in scaler : TRUE

TrainFn == IF args.use_mixed_precision THEN "train_mixed_precision" ELSE "train_epoch"

Event(fn, ev) ==
    [fn |-> fn, epoch |-> epoch, ev |-> ev, cycles |-> batch_idx,
     samples |-> Cardinality(used), order |-> test_order]

inputs == << entry, argv_flag, torch_version, cuda_available, train_size, test_size >>
seeding == << seed_calls, unseeded_draws, train_worker_seed, test_worker_seed >>
training == << model, opt_steps, scaler, last_step >>
loop == << batch_idx, used, batch_sizes, test_order, test_loss, test_accuracy >>
evals == << prev_eval, last_eval >>

---------------------------------------------------------------------------
Init ==
    /\ entry \in {"cli", "call"}
    /\ argv_flag \in (IF entry = "cli" THEN BOOLEAN ELSE {FALSE})
    /\ \E mixed \in (IF entry = "cli" THEN {ParseUseMixedPrecision(argv_flag)} ELSE BOOLEAN),
          device \in (IF entry = "cli" THEN {"unset"} ELSE {"cuda", "cpu"}),
          epochs \in 0..MaxEpochs, b \in 1..MaxBatch, tb \in 1..MaxBatch,
          seed \in Seeds :
          args = [use_mixed_precision |-> mixed, epochs |-> epochs, batch_size |-> b,
                  test_batch_size |-> tb, seed |-> seed, device |-> device]
    /\ torch_version \in Versions
    /\ cuda_available \in BOOLEAN
    /\ train_size \in 1..MaxTrain
    /\ test_size \in 0..MaxTest
    /\ pc = IF entry = "cli" THEN "makedirs" ELSE "set_seed"
    /\ err = "none"
    /\ err_at = "none"
    /\ logged = 0
    /\ seed_calls = <<>>
    /\ unseeded_draws = FALSE
    /\ train_worker_seed = <<>>
    /\ test_worker_seed = <<>>
    /\ built = {}
    /\ model = [params |-> 0, training |-> TRUE, device |-> "unset"]
    /\ opt_steps = 0
    /\ scaler = {}
    /\ epoch = 0
    /\ batch_idx = 0
    /\ used = {}
    /\ batch_sizes = {}
    /\ test_order = <<>>
    /\ test_loss = 0
    /\ test_accuracy = 0
    /\ last_step = {}
    /\ prev_eval = {}
    /\ last_eval = {}
    /\ trace = <<>>

---------------------------------------------------------------------------
(* The start-up block, lines 162-180. *)

(* lines 165-166 *)
makedirs ==
    /\ pc = "makedirs"
    /\ \E fault \in BOOLEAN :
          IF fault THEN Raise("OSError")
          ELSE pc' = "backup_code" /\ UNCHANGED << err, err_at >>
    /\ UNCHANGED << inputs, args, logged, seeding, built, training, epoch, loop,
                    evals, trace >>

(* lines 152-160 and 167 *)
backup_code ==
    /\ pc = "backup_code"
    /\ \E fault \in BOOLEAN :
          IF fault THEN Raise("OSError")
          ELSE pc' = "set_logging" /\ UNCHANGED << err, err_at >>
    /\ UNCHANGED << inputs, args, logged, seeding, built, training, epoch, loop,
                    evals, trace >>

(* lines 168-169 *)
set_logging ==
    /\ pc = "set_logging"
    /\ \E fault \in BOOLEAN :
          IF fault THEN Raise("OSError")
          ELSE pc' = "select_device" /\ UNCHANGED << err, err_at >>
    /\ UNCHANGED << inputs, args, logged, seeding, built, training, epoch, loop,
                    evals, trace >>

(* lines 171-180: the device is resolved, then described;
   torch.cuda.get_device_name(0) raises when there is no accelerator. *)
select_device ==
    /\ pc = "select_device"
    /\ args' = [args EXCEPT !.device = IF cuda_available THEN "cuda" ELSE "cpu"]
    /\ IF ~cuda_available THEN Raise("cuda")
       ELSE pc' = "set_seed" /\ UNCHANGED << err, err_at >>
    /\ UNCHANGED << inputs, logged, seeding, built, training, epoch, loop,
                    evals, trace >>

---------------------------------------------------------------------------
(* main(args), lines 41-89. *)

(* lines 42-44 and 144-150 *)
set_seed ==
    /\ pc = "set_seed"
    /\ seed_calls' = Append(seed_calls, args.seed)
    /\ pc' = "version_check"
    /\ UNCHANGED << inputs, args, err, err_at, logged, unseeded_draws,
                    train_worker_seed, test_worker_seed, built, training, epoch,
                    loop, evals, trace >>

(* lines 45-48 *)
version_check ==
    /\ pc = "version_check"
    /\ IF args.use_mixed_precision /\ VersionTooOld(torch_version.text)
       THEN Raise("ValueError")
       ELSE pc' = "train_data" /\ UNCHANGED << err, err_at >>
    /\ UNCHANGED << inputs, args, logged, seeding, built, training, epoch, loop,
                    evals, trace >>

(* lines 50-62: the download may fail *)
train_data ==
    /\ pc = "train_data"
    /\ \E fault \in BOOLEAN :
          IF fault
          THEN Raise("RuntimeError") /\ built' = built
          ELSE /\ built' = built \cup {"train_dataset", "train_loader"}
               /\ pc' = "test_data"
               /\ UNCHANGED << err, err_at >>
    /\ UNCHANGED << inputs, args, logged, seeding, training, epoch, loop, evals,
                    trace >>

(* lines 64-70 *)
test_data ==
    /\ pc = "test_data"
    /\ built' = built \cup {"test_dataset", "test_loader"}
    /\ pc' = "model"
    /\ UNCHANGED << inputs, args, err, err_at, logged, seeding, training, epoch,
                    loop, evals, trace >>

(* lines 72-77: Net() draws its initial parameters; .to(device) needs the
   device to exist *)
build_model ==
    /\ pc = "model"
    /\ unseeded_draws' = (unseeded_draws \/ seed_calls = <<>>)
    /\ IF args.device = "cuda" /\ ~cuda_available
       THEN /\ Raise("cuda")
            /\ built' = built \cup {"model"}
            /\ UNCHANGED model
       ELSE /\ model' = [params |-> 0, training |-> TRUE, device |-> args.device]
            /\ built' = built \cup {"model", "optimizer"}
            /\ pc' = "scaler"
            /\ UNCHANGED << err, err_at >>
    /\ UNCHANGED << inputs, args, logged, seed_calls, train_worker_seed,
                    test_worker_seed, opt_steps, scaler, last_step, epoch, loop,
                    evals, trace >>

(* lines 79-81: GradScaler() disables itself when there is no accelerator *)
make_scaler ==
    /\ pc = "scaler"
    /\ IF args.use_mixed_precision
       THEN /\ scaler' = {[log2_scale |-> InitScaleLog2, growth_tracker |-> 0,
                           enabled |-> cuda_available]}
            /\ built' = built \cup {"scaler"}
       ELSE UNCHANGED << scaler, built >>
    /\ pc' = "epoch_loop"
    /\ UNCHANGED << inputs, args, err, err_at, logged, seeding, model, opt_steps,
                    last_step, epoch, loop, evals, trace >>

(* line 83 and the entry into the training function (lines 85/87, 92-93 or
   110-111): the loader's iterator starts its workers and draws the epoch's
   order from the main generator *)
epoch_loop ==
    /\ pc = "epoch_loop"
    /\ IF epoch < LastEpoch
       THEN /\ epoch' = epoch + 1
            /\ model' = [model EXCEPT !.training = TRUE]
            /\ unseeded_draws' = (unseeded_draws \/ seed_calls = <<>>)
            /\ \E base_seed \in BaseSeeds :
                  train_worker_seed' = WorkerSeeds(TrainLoader, base_seed)
            /\ batch_idx' = 0
            /\ used' = {}
            /\ batch_sizes' = {}
            /\ trace' = Append(trace, [Event(TrainFn, "call") EXCEPT
                                         !.epoch = epoch + 1, !.cycles = 0,
                                         !.samples = 0, !.order = <<>>])
            /\ pc' = "train_batch"
       ELSE /\ pc' = "done"
            /\ UNCHANGED << epoch, model, unseeded_draws, train_worker_seed,
                            batch_idx, used, batch_sizes, trace >>
    /\ UNCHANGED << inputs, args, err, err_at, logged, seed_calls,
                    test_worker_seed, built, opt_steps, scaler, last_step,
                    test_order, test_loss, test_accuracy, evals >>

(* What moving a batch and running the forward pass raises, "none" if nothing. *)
BatchError ==
    IF BatchDevice = "cuda" /\ ~cuda_available THEN "cuda"
    ELSE IF model.device # BatchDevice THEN "device_mismatch"
    ELSE "none"

(* lines 93-107: one batch of train_mixed_precision *)
train_mixed_precision ==
    /\ pc = "train_batch"
    /\ args.use_mixed_precision
    /\ \E B \in NextBatches(TrainLoader, train_size, used),
          fault \in BOOLEAN, found_inf \in BOOLEAN :
          IF fault \/ BatchError # "none"
          THEN /\ Raise(IF fault THEN "RuntimeError" ELSE BatchError)
               /\ UNCHANGED << training, batch_idx, used, batch_sizes >>
          ELSE /\ LET sc == TheScaler
                      p == IF sc.enabled THEN ScalerStep(model.params, found_inf)
                           ELSE model.params + 1
                  IN /\ model' = [model EXCEPT !.params = p]
                     /\ opt_steps' = opt_steps + (p - model.params)
                     /\ scaler' = {IF sc.enabled THEN ScalerUpdate(sc, found_inf)
                                   ELSE sc}
                     /\ last_step' = {[found_inf |-> found_inf,
                                       scale_before |-> sc.log2_scale,
                                       params_before |-> model.params]}
               /\ batch_idx' = batch_idx + 1
               /\ used' = used \cup B
               /\ batch_sizes' = batch_sizes \cup {Cardinality(B)}
               /\ UNCHANGED << pc, err, err_at >>
    /\ UNCHANGED << inputs, args, logged, seeding, built, epoch, test_order,
                    test_loss, test_accuracy, evals, trace >>

(* lines 111-121: one batch of train_epoch *)
train_epoch ==
    /\ pc = "train_batch"
    /\ ~args.use_mixed_precision
    /\ \E B \in NextBatches(TrainLoader, train_size, used), fault \in BOOLEAN :
          IF fault \/ BatchError # "none"
          THEN /\ Raise(IF fault THEN "RuntimeError" ELSE BatchError)
               /\ UNCHANGED << training, batch_idx, used, batch_sizes >>
          ELSE /\ model' = [model EXCEPT !.params = @ + 1]
               /\ opt_steps' = opt_steps + 1
               /\ batch_idx' = batch_idx + 1
               /\ used' = used \cup B
               /\ batch_sizes' = batch_sizes \cup {Cardinality(B)}
               /\ UNCHANGED << pc, err, err_at, scaler, last_step >>
    /\ UNCHANGED << inputs, args, logged, seeding, built, epoch, test_order,
                    test_loss, test_accuracy, evals, trace >>

(* the training loader is exhausted: the training function returns, and line
   89 enters test(): lines 123-127 *)
test_call ==
    /\ pc = "train_batch"
    /\ NextBatches(TrainLoader, train_size, used) = {}
    /\ trace' = trace \o << Event(TrainFn, "return"),
                            [Event("test", "call") EXCEPT !.cycles = 0,
                                                          !.samples = 0] >>
    /\ model' = [model EXCEPT !.training = EvalMode]
    /\ train_worker_seed' = <<>>
    /\ \E base_seed \in BaseSeeds :
          test_worker_seed' = WorkerSeeds(TestLoader, base_seed)
    /\ test_loss' = 0
    /\ test_accuracy' = 0
    /\ test_order' = <<>>
    /\ batch_idx' = 0
    /\ used' = {}
    /\ batch_sizes' = {}
    /\ pc' = "test_batch"
    /\ UNCHANGED << inputs, args, err, err_at, logged, seed_calls, unseeded_draws,
                    built, opt_steps, scaler, last_step, epoch, evals >>

(* lines 127-134: one batch of test() *)
test_batch ==
    /\ pc = "test_batch"
    /\ \E B \in NextBatches(TestLoader, test_size, used) :
          IF BatchError # "none"
          THEN /\ Raise(BatchError)
               /\ UNCHANGED loop
          ELSE \E pred \in [B -> Classes] :
               /\ \A x \in B : pred[x] \in Predictions(model.params, model.training, x)
               /\ test_loss' = test_loss + SumLoss(model.params, B)
               /\ test_accuracy' = test_accuracy
                                     + Cardinality({x \in B : pred[x] = Label(x)})
               /\ test_order' = test_order \o Sorted(B)
               /\ batch_idx' = batch_idx + 1
               /\ used' = used \cup B
               /\ batch_sizes' = batch_sizes \cup {Cardinality(B)}
               /\ UNCHANGED << pc, err, err_at >>
    /\ UNCHANGED << inputs, args, logged, seeding, built, training, epoch, evals,
                    trace >>

(* lines 136-142: the division by len(test_dataset), the log line, the return *)
test_end ==
    /\ pc = "test_batch"
    /\ NextBatches(TestLoader, test_size, used) = {}
    /\ IF test_size = 0
       THEN /\ Raise("ZeroDivisionError")
            /\ UNCHANGED << evals, trace, test_worker_seed >>
       ELSE /\ prev_eval' = {e \in last_eval : e.params = model.params}
            /\ last_eval' = {[epoch |-> epoch, params |-> model.params,
                              accuracy |-> [num |-> test_accuracy, den |-> test_size],
                              loss |-> [num |-> test_loss, den |-> test_size]]}
            /\ trace' = Append(trace, Event("test", "return"))
            /\ test_worker_seed' = <<>>
            /\ pc' = "epoch_loop"
            /\ UNCHANGED << err, err_at >>
    /\ UNCHANGED << inputs, args, logged, seed_calls, unseeded_draws,
                    train_worker_seed, built, training, epoch, loop >>

(* lines 183-185: logging.exception, then the bare raise *)
handle_exception ==
    /\ pc = "except"
    /\ logged' = logged + 1
    /\ pc' = AfterExcept
    /\ UNCHANGED << inputs, args, err, err_at, seeding, built, training, epoch,
                    loop, evals, trace >>

Next ==
    \/ makedirs \/ backup_code \/ set_logging \/ select_device
    \/ set_seed \/ version_check \/ train_data \/ test_data \/ build_model
    \/ make_scaler \/ epoch_loop \/ train_mixed_precision \/ train_epoch
    \/ test_call \/ test_batch \/ test_end \/ handle_exception

Spec == Init /\ [][Next]_vars

---------------------------------------------------------------------------
(* Vocabulary of the properties. *)

Steps == [i \in 1..Len(trace) |-> << trace[i].fn, trace[i].epoch, trace[i].ev >>]

RECURSIVE EpochSteps(_)
EpochSteps(n) ==
    IF n <= 0 THEN <<>>
    ELSE EpochSteps(n - 1) \o << << TrainFn, n, "call" >>, << TrainFn, n, "return" >>,
                                 << "test", n, "call" >>, << "test", n, "return" >> >>

IsPrefix(a, b) == Len(a) <= Len(b) /\ \A i \in 1..Len(a) : a[i] = b[i]

Returns(fns) == {i \in 1..Len(trace) : trace[i].fn \in fns /\ trace[i].ev = "return"}

TrainFns == {"train_mixed_precision", "train_epoch"}

(* The installed release is older than 1.6.0. *)
ReleaseBelowMinimum ==
    \/ torch_version.release[1] < 1
    \/ torch_version.release[1] = 1 /\ torch_version.release[2] < 6

Stopped == pc \in {"except", "raised"}

---------------------------------------------------------------------------
(* C1: a run of main that does not fail performs Training Step(1),
   Evaluation Step, ..., Training Step(E), Evaluation Step, one after the
   other (every call returns before the next call), E of each, the epoch
   index going 1..E, and then ends with no further step. *)
C1_EpochSequence ==
    /\ IsPrefix(Steps, EpochSteps(args.epochs))
    /\ pc = "done" => /\ Steps = EpochSteps(args.epochs)
                      /\ Cardinality(Returns(TrainFns)) = args.epochs
                      /\ Cardinality(Returns({"test"})) = args.epochs
                      /\ ~ENABLED Next

C1_Witness == pc = "done" /\ args.epochs = 2 /\ Len(trace) = 8

(* C2: the configuration error is raised exactly when mixed precision is
   requested on a release older than 1.6.0, and then before any dataset,
   loader, model, optimizer or scaler exists and before any step runs. *)
C2_ConfigRejection ==
    /\ err = "ValueError" => /\ args.use_mixed_precision
                             /\ ReleaseBelowMinimum
                             /\ err_at = "version_check"
    /\ (args.use_mixed_precision /\ ReleaseBelowMinimum) =>
          /\ pc \in {"makedirs", "backup_code", "set_logging", "select_device",
                     "set_seed", "version_check", "except", "raised"}
          /\ built = {}
          /\ scaler = {}
          /\ trace = <<>>
          /\ batch_idx = 0
          /\ train_worker_seed = <<>> /\ test_worker_seed = <<>>

C2_Witness == err = "ValueError" /\ pc = "raised" /\ built = {}

C2_WitnessAccepted ==
    args.use_mixed_precision /\ torch_version.release = << 1, 10, 0 >> /\ pc = "done"

(* C3 as stated: under the cli entry every error that ends the run, whatever
   step raised it, has been written to the log exactly once. *)
C3_EveryErrorLogged == (entry = "cli" /\ pc = "raised") => logged = 1

(* C3 as amended: under the cli entry an error raised inside main(args) is
   logged exactly once and re-raised; an error raised by a start-up step
   before the try block propagates unlogged; either way the run ends in
   failure and nothing is retried or executed after the error. *)
C3_LoggedThenReraised ==
    /\ [](/\ err # "none" => Stopped
          /\ Stopped => err # "none"
          /\ pc = "except" => entry = "cli" /\ logged = 0 /\ err_at \in MainPcs
          /\ (entry = "cli" /\ pc = "raised") =>
                logged = (IF err_at \in MainPcs THEN 1 ELSE 0)
          /\ pc = "raised" => ~ENABLED Next)
    /\ [][err # "none" =>
            UNCHANGED << err, err_at, args, built, training, epoch, loop, evals,
                         seeding, trace >>]_vars

C3_Witness ==
    entry = "cli" /\ pc = "raised" /\ logged = 1 /\ err_at = "train_batch"

C3_WitnessStartup ==
    entry = "cli" /\ pc = "raised" /\ logged = 0 /\ err_at = "backup_code"

(* C4: without an accelerator the run falls back to the CPU and proceeds:
   the missing accelerator alone never makes the run fail. *)
C4_FallbackProceeds == ~cuda_available => err # "cuda"

(* C5: the Evaluation Step leaves model parameters, optimizer state and the
   scale factor as they were, and two evaluations in a row of the same
   parameters return the same accuracy. *)
C5_EvaluationReadOnly ==
    /\ [][(pc = "test_batch" \/ pc' = "test_batch") =>
            /\ model'.params = model.params
            /\ model'.device = model.device
            /\ opt_steps' = opt_steps
            /\ scaler' = scaler]_vars
    /\ [](\A a \in prev_eval, b \in last_eval :
             a.params = b.params => a.accuracy = b.accuracy /\ a.loss = b.loss)

C5_Witness ==
    /\ prev_eval # {} /\ last_eval # {}
    /\ \E b \in last_eval : b.accuracy.num > 0 /\ b.accuracy.num < b.accuracy.den

(* C6: for a non-empty test split of size M and any test batch size, the
   returned accuracy is correct / M, correct being the number of test
   samples whose predicted class is their label, each sample counted in
   exactly one batch; so it is one of 0/M .. M/M; the mean loss is the sum
   of the per-sample losses over M. *)
C6_AccuracyIsCorrectOverM ==
    /\ \A e \in last_eval :
          /\ test_size > 0
          /\ e.accuracy.den = test_size
          /\ e.accuracy.num =
                Cardinality({x \in 1..test_size :
                                Predictions(e.params, FALSE, x) = {Label(x)}})
          /\ e.accuracy.num \in 0..e.accuracy.den
          /\ e.loss.den = test_size
          /\ e.loss.num = SumLoss(e.params, 1..test_size)
    /\ \A i \in Returns({"test"}) :
          /\ trace[i].samples = test_size
          /\ Len(trace[i].order) = test_size
          /\ {trace[i].order[k] : k \in 1..test_size} = 1..test_size

C6_Witness ==
    /\ \E e \in last_eval : e.accuracy.num = 1 /\ e.accuracy.den = 2
    /\ args.test_batch_size = 2 /\ pc = "done"

C6_WitnessPartialBatch ==
    last_eval # {} /\ test_size % args.test_batch_size # 0

(* C7: after a mixed-precision step whose gradients overflowed the scale
   factor is strictly smaller and the parameters are those before the step,
   and no error is raised for it; after a step without overflow the scale
   factor is not smaller; and the one scaler made before the first epoch is
   changed by training batches only, never reset. *)
C7_ScaleAdaptation ==
    /\ [](\A s \in last_step :
            /\ scaler # {}
            /\ s.found_inf => /\ TheScaler.log2_scale < s.scale_before
                              /\ model.params = s.params_before
            /\ ~s.found_inf => /\ TheScaler.log2_scale >= s.scale_before
                               /\ model.params # s.params_before)
    /\ [][scaler # {} =>
            /\ scaler' # {}
            /\ scaler' # scaler => pc = "train_batch" /\ pc' = "train_batch"
                                   /\ err' = "none"]_vars

C7_Witness ==
    /\ epoch = 2
    /\ \E s \in last_step : s.found_inf /\ s.scale_before < InitScaleLog2
    /\ pc = "done"

(* C8 as stated: the seed is set before any random draw, and every
   data-loading worker w, of either loader, runs with seed + w. *)
C8_AllWorkersSeeded ==
    /\ ~unseeded_draws
    /\ \A w \in DOMAIN train_worker_seed : train_worker_seed[w] = args.seed + w
    /\ \A w \in DOMAIN test_worker_seed : test_worker_seed[w] = args.seed + w

(* C8 as amended: set_random_seed(seed) is the first thing main does, so it
   precedes parameter initialisation and the first shuffle; it is called
   once in the main process; every worker w of the training loader runs
   with seed + w; the workers of the test loader get no worker_init_fn and
   keep the loader's own seeding. *)
C8_SeedBeforeDraws ==
    /\ ~unseeded_draws
    /\ seed_calls \in {<<>>, << args.seed >>}
    /\ seed_calls = <<>> => /\ pc \in {"makedirs", "backup_code", "set_logging",
                                       "select_device", "set_seed", "raised"}
                            /\ built = {} /\ trace = <<>>
    /\ pc = "train_batch" => DOMAIN train_worker_seed = 0..(NumWorkers - 1)
    /\ \A w \in DOMAIN train_worker_seed : train_worker_seed[w] = args.seed + w
    /\ \A w \in DOMAIN test_worker_seed :
          \E base_seed \in BaseSeeds : test_worker_seed[w] = base_seed + w

C8_Witness ==
    /\ pc = "train_batch" /\ epoch = 2 /\ batch_idx = 1
    /\ train_worker_seed[NumWorkers - 1] = args.seed + NumWorkers - 1

(* C9: a training epoch over M samples with batch size b runs exactly
   M div b cycles, each on exactly b samples, so M mod b samples go unused
   and M < b means no cycle at all, with the evaluation of that epoch still
   run; the test split is walked in its own order, its last partial batch
   included. *)
C9_BatchCounts ==
    /\ pc = "train_batch" => batch_sizes \subseteq {args.batch_size}
    /\ \A i \in Returns(TrainFns) :
          /\ trace[i].cycles = train_size \div args.batch_size
          /\ trace[i].samples = args.batch_size * trace[i].cycles
          /\ train_size - trace[i].samples = train_size % args.batch_size
          /\ train_size < args.batch_size => trace[i].cycles = 0
          /\ pc = "done" => /\ i + 2 \in Returns({"test"})
                            /\ trace[i + 2].epoch = trace[i].epoch
    /\ \A i \in Returns({"test"}) :
          /\ trace[i].order = [k \in 1..test_size |-> k]
          /\ trace[i].cycles = NumBatches(TestLoader, test_size)
    /\ pc = "test_batch" => test_order = [k \in 1..Cardinality(used) |-> k]

C9_Witness ==
    /\ pc = "done" /\ train_size = 3 /\ args.batch_size = 2
    /\ test_size = 1 /\ args.test_batch_size = 2

C9_WitnessNoUpdate ==
    /\ pc = "done" /\ train_size < args.batch_size /\ args.epochs = 2
    /\ model.params = 0 /\ Cardinality(Returns({"test"})) = 2

(* C10: the precision mode never changes during a run, every epoch uses the
   step variant it selects, a scaler exists only in mixed-precision runs,
   and a run started from the command line, with or without
   --use_mixed_precision, is a mixed-precision run. *)
C10_PrecisionModeFixed ==
    /\ [](/\ scaler # {} => args.use_mixed_precision
          /\ \A i \in 1..Len(trace) :
                trace[i].fn \in TrainFns => trace[i].fn = TrainFn
          /\ entry = "cli" => /\ args.use_mixed_precision
                              /\ \A i \in 1..Len(trace) : trace[i].fn # "train_epoch")
    /\ [][args'.use_mixed_precision = args.use_mixed_precision]_vars

C10_Witness ==
    /\ entry = "cli" /\ ~argv_flag /\ pc = "done"
    /\ Cardinality(Returns({"train_mixed_precision"})) = 2

C10_WitnessFullPrecision ==
    /\ entry = "call" /\ pc = "done" /\ scaler = {}
    /\ Cardinality(Returns({"train_epoch"})) = 2

=============================================================================
